---- MODULE Spec2Model ----
(***************************************************************************)
(* CRMClient: the adapter that talks to the CRM Web API (OData over HTTP). *)
(* A verb call (doGet, doPatch, doPost, doBatchPost, doDelete) runs one or *)
(* more doFetch attempts; each attempt suspends at the token acquisition   *)
(* and at the network call.  Everything between two suspension points is   *)
(* one step.                                                               *)
(***************************************************************************)
EXTENDS Integers, Sequences, FiniteSets, TLC

\* Largest value of the OBJECT_REFERENCE_RETRIES environment variable tried.
MaxRetries == 2

\* The in-flight verb calls.
Calls == {"c1", "c2"}

(***************************************************************************)
(* Strings and texts.  A response body is a text: either a bare body or a  *)
(* body wrapped in the multipart batch envelope ("batch"), or wrapped in   *)
(* an envelope whose closing boundary is missing ("noClose").              *)
(***************************************************************************)
OBJECT_REFERENCE_ERROR == "Object reference not set to an instance of an object."

Plain(s) == [wrap |-> "none", body |-> s]

\* a JavaScript value that is a string or undefined
Undefined == [def |-> FALSE, text |-> Plain("")]
Str(t) == [def |-> TRUE, text |-> t]

\* Property names are sequences of pieces; the three annotation markers are
\* single pieces.
FORMATTED_VALUE == "@OData.Community.Display.V1.FormattedValue"
LOGICAL_NAME == "@Microsoft.Dynamics.CRM.lookuplogicalname"
NAVIGATION_PROPERTY == "@Microsoft.Dynamics.CRM.associatednavigationproperty"

includes(name, marker) == \E i \in 1..Len(name) : name[i] = marker

\* 0-based index of the first occurrence
indexOf(name, marker) ==
  (CHOOSE i \in 1..Len(name) :
      name[i] = marker /\ \A j \in 1..(i-1) : name[j] # marker) - 1

NoIndex == -1

getNormalizedPropertyName(propertyName) ==
  LET i1 == IF includes(propertyName, FORMATTED_VALUE)
            THEN indexOf(propertyName, FORMATTED_VALUE) ELSE NoIndex
      s1 == IF includes(propertyName, FORMATTED_VALUE) THEN "_formatted" ELSE ""
      i2 == IF includes(propertyName, LOGICAL_NAME)
            THEN indexOf(propertyName, LOGICAL_NAME) ELSE i1
      s2 == IF includes(propertyName, LOGICAL_NAME) THEN "_logical" ELSE s1
      index == IF includes(propertyName, NAVIGATION_PROPERTY)
               THEN indexOf(propertyName, NAVIGATION_PROPERTY) ELSE i2
      suffix == IF includes(propertyName, NAVIGATION_PROPERTY)
                THEN "_navigationproperty" ELSE s2
  IN  \* (index && suffix): undefined and 0 are both falsy
      IF index # NoIndex /\ index # 0 /\ suffix # ""
      THEN SubSeq(propertyName, 1, index) \o <<suffix>>
      ELSE propertyName

\* An object is a sequence of <<name, value>> pairs in insertion order.
keyIndex(obj, k) ==
  IF \E i \in 1..Len(obj) : obj[i][1] = k
  THEN CHOOSE i \in 1..Len(obj) : obj[i][1] = k
  ELSE 0

\* obj[k] = v
setProperty(obj, k, v) ==
  IF keyIndex(obj, k) = 0
  THEN Append(obj, <<k, v>>)
  ELSE [obj EXCEPT ![keyIndex(obj, k)] = <<k, v>>]

RECURSIVE parsePrefixedFrom(_, _, _)
parsePrefixedFrom(data, i, normalizedObject) ==
  IF i > Len(data) THEN normalizedObject
  ELSE parsePrefixedFrom(data, i + 1,
         setProperty(normalizedObject,
                     getNormalizedPropertyName(data[i][1]), data[i][2]))

parsePrefixedEntity(data) == parsePrefixedFrom(data, 1, <<>>)

(***************************************************************************)
(* JSON contents.  A parsed body is an object with an optional error       *)
(* member, an optional '@odata.context' (absent "none", containing         *)
(* '/$entity' "entity", or any other "feed"), an optional value array of   *)
(* entities, and its other properties.                                     *)
(***************************************************************************)
NoError == [present |-> FALSE, message |-> Undefined]
Error(m) == [present |-> TRUE, message |-> m]

Json(e, ctx, ps, hv, v) ==
  [error |-> e, context |-> ctx, props |-> ps, hasValue |-> hv, value |-> v]

Entity1 == << <<<<"name">>, "A">>, <<<<"name", FORMATTED_VALUE>>, "Alice">> >>
Contact1 == << <<<<"contactid">>, "contact-1">> >>
Entity2 == << <<<<"owner", LOGICAL_NAME>>, "contact">>,
             <<<<"createdon">>, "2019-07-01T12:00:00Z">> >>

\* The bodies the CRM answers with, by name.
JsonBodies == {"entity", "collection", "feed", "bare",
               "objectReference", "crmError", "noContact", "oneContact"}
\* "" is the empty body, as a 204 No Content response has
TextBodies == {"Unauthorized", ""}
Bodies == JsonBodies \cup TextBodies

JsonOf(body) ==
  CASE body = "entity"     -> Json(NoError, "entity", Entity1, FALSE, <<>>)
    [] body = "collection" -> Json(NoError, "feed", <<>>, TRUE, <<Entity1, Entity2>>)
    [] body = "feed"       -> Json(NoError, "feed", Entity2, FALSE, <<>>)
    [] body = "bare"       -> Json(NoError, "none", Entity1, TRUE, <<Entity2>>)
    [] body = "noContact"  -> Json(NoError, "feed", <<>>, TRUE, <<>>)
    [] body = "oneContact" -> Json(NoError, "feed", <<>>, TRUE, <<Contact1>>)
    [] body = "objectReference" ->
         Json(Error(Str(Plain(OBJECT_REFERENCE_ERROR))), "none", <<>>, FALSE, <<>>)
    [] body = "crmError"   ->
         Json(Error(Str(Plain("Resource not found"))), "none", <<>>, FALSE, <<>>)

\* The members of the class: those of an instance (`this.x`) and the static
\* ones (`CRMClient.x`).
InstanceMethods == {"getToken", "getHeaders", "doFetch", "doFetchWithRetry",
                    "doGet", "doPatch", "doPost", "doBatchPost", "doDelete"}
StaticMethods == {"extractBatchData", "dateReviver", "isObjectReferenceError",
                  "makeBatchBody", "processGetResponse", "parsePrefixedEntity",
                  "getNormalizedPropertyName"}

\* the strings Date.parse accepts, and the Date made from one
DateStrings == {"2019-07-01T12:00:00Z"}
DateOf(value) == "Date(" \o value \o ")"

\* dateReviver(key, value): its first statement calls Math.isNaN, which is
\* not a function, so the call raises whatever the value is.
dateReviver(value) == [threw |-> TRUE, value |-> value]

\* `this.dateReviver` in doFetch: a static method is not a member of `this`,
\* so the reviver handed to JSON.parse is undefined.
HasReviver == "dateReviver" \in InstanceMethods

RevivedObject(obj) ==
  [i \in 1..Len(obj) |-> <<obj[i][1], dateReviver(obj[i][2]).value>>]

ReviverThrows(obj) == \E i \in 1..Len(obj) : dateReviver(obj[i][2]).threw

\* JSON.parse(text, reviver): text may be undefined; a reviver that raises
\* makes the parse raise
JSONparse(t) ==
  IF t.def /\ t.text.wrap = "none" /\ t.text.body \in JsonBodies
  THEN LET json == JsonOf(t.text.body)
       IN  IF ~HasReviver
           THEN [ok |-> TRUE, json |-> json]
           ELSE IF dateReviver("").threw
                     \/ ReviverThrows(json.props)
                     \/ \E i \in 1..Len(json.value) : ReviverThrows(json.value[i])
           THEN [ok |-> FALSE, json |-> Json(NoError, "none", <<>>, FALSE, <<>>)]
           ELSE [ok |-> TRUE,
                 json |-> [json EXCEPT
                             !.props = RevivedObject(json.props),
                             !.value = [i \in 1..Len(json.value) |->
                                          RevivedObject(json.value[i])]]]
  ELSE [ok |-> FALSE, json |-> Json(NoError, "none", <<>>, FALSE, <<>>)]

\* The pattern matches a complete envelope around a '{...}' blob.
extractBatchData(textContent) ==
  IF textContent.wrap = "batch" /\ textContent.body \in JsonBodies
  THEN Str(Plain(textContent.body))
  ELSE Undefined

(***************************************************************************)
(* Decoded results and outcomes.                                           *)
(***************************************************************************)
EmptyJson == Json(NoError, "none", <<>>, FALSE, <<>>)

\* `let res;` before the first attempt
NoResult == [status |-> 0, content |-> EmptyJson]

Statuses == {200, 201, 204, 404}

\* The part of doFetch after the body text has arrived: a raw response
\* [status, text] becomes a decoded result [status, content].
doFetchDecode(r, batch) ==
  LET text == IF batch THEN extractBatchData(r.text) ELSE Str(r.text)
      parsed == JSONparse(text)
  IN  IF parsed.ok
      THEN [status |-> r.status, content |-> parsed.json]
      ELSE [status |-> r.status,
            content |-> Json(Error(text), "none", <<>>, FALSE, <<>>)]

Method(o) ==
  CASE o = "doGet" -> "GET"
    [] o = "doPatch" -> "PATCH"
    [] o \in {"doPost", "doBatchPost"} -> "POST"
    [] o = "doDelete" -> "DELETE"
    [] OTHER -> ""

\* variant: the catch block passes the underlying error on
doFetchFailure_Rethrown(o) == "FetchError: request to CRM failed"

\* the message of the failure doFetch raises from its catch block
doFetchFailure(o) == "CRMClient failed to do " \o Method(o) \o " request"

TypeErrorMessage == "TypeError"

\* new Error(x).message for an object x: String(x)
ErrorMessageOf(error) == "[object Object]"

\* variant: any error that has a message counts as the transient fault
isObjectReferenceError_AnyMessage(error) == error.message.def

isObjectReferenceError(error) ==
  error.message.def /\ error.message.text = Plain(OBJECT_REFERENCE_ERROR)

\* What a promise holds: pending, a value, or a raised failure.
Pending == [kind |-> "pending", isFalse |-> FALSE, json |-> EmptyJson, error |-> ""]
Returned(j) == [kind |-> "returned", isFalse |-> FALSE, json |-> j, error |-> ""]
ReturnedFalse == [kind |-> "returned", isFalse |-> TRUE, json |-> EmptyJson, error |-> ""]
Threw(m) == [kind |-> "threw", isFalse |-> FALSE, json |-> EmptyJson, error |-> m]

InnerPending == [kind |-> "pending", res |-> NoResult, error |-> ""]
InnerReturned(d) == [kind |-> "returned", res |-> d, error |-> ""]
InnerThrew(m) == [kind |-> "threw", res |-> NoResult, error |-> m]

processGetResponse(json) ==
  IF json.context = "none"
  THEN Threw(TypeErrorMessage)         \* undefined.includes(...)
  ELSE IF json.context = "entity"
  THEN Returned([json EXCEPT !.props = parsePrefixedEntity(json.props)])
  ELSE IF json.hasValue
  THEN Returned([json EXCEPT
                   !.value = [i \in 1..Len(json.value) |->
                                 parsePrefixedEntity(json.value[i])]])
  ELSE Returned(json)

\* the log line reads res.content.error.message
LogFailure(d) ==
  IF d.content.error.present THEN ReturnedFalse ELSE Threw(TypeErrorMessage)

doGetResult(d) ==
  IF ~d.content.error.present /\ d.status = 200
  THEN processGetResponse(d.content)
  ELSE LogFailure(d)

\* variant: only status 200 accepted, as for the other verbs
doPatchResult_Only200(d) ==
  IF ~d.content.error.present /\ d.status = 200
  THEN Returned(d.content)
  ELSE LogFailure(d)

doPatchResult(d) ==
  IF ~d.content.error.present /\ d.status >= 200 /\ d.status < 300
  THEN Returned(d.content)
  ELSE LogFailure(d)

doPostResult(d) ==
  IF ~d.content.error.present /\ d.status = 200
  THEN Returned(d.content)
  ELSE LogFailure(d)

VerbResult(o, d) ==
  CASE o = "doGet" -> doGetResult(d)
    [] o = "doPatch" -> doPatchResult(d)
    [] o \in {"doPost", "doBatchPost"} -> doPostResult(d)

\* variant: doPatch retried as well
UsesRetry_WithPatch(o) == o \in {"doGet", "doPost", "doBatchPost", "doPatch"}

\* Which verbs call doFetchWithRetry rather than doFetch.
UsesRetry(o) == o \in {"doGet", "doPost", "doBatchPost"}

(***************************************************************************)
(* Configuration: process.env.OBJECT_REFERENCE_RETRIES is unset, or set to *)
(* a string of digits.                                                     *)
(***************************************************************************)
Configs == {[set |-> FALSE, val |-> 0]}
             \cup {[set |-> TRUE, val |-> n] : n \in 0..MaxRetries}

DefaultRetries == 1

\* the configured retry count
Retries(c) == IF c.set THEN c.val ELSE DefaultRetries

\* OBJECT_REFERENCE_RETRIES + 1: number + 1 when unset; when set the
\* operand is a string, so + appends the digit 1 (the value below is what
\* the string counts as in arithmetic).
InitialTries(c) == IF c.set THEN 10 * c.val + 1 ELSE DefaultRetries + 1

\* variant: the fault leaves the tries as they are
TriesAfterFault_Kept(t) == t

\* tries -= tries
TriesAfterFault(t) == t - t

(***************************************************************************)
(* State.                                                                  *)
(***************************************************************************)
VARIABLES
  cfg,       \* the OBJECT_REFERENCE_RETRIES setting, read once at load
  op,        \* per call: the verb invoked ("none" before the call)
  isBatch,   \* per call: the isBatch argument handed to doFetch
  retry,     \* per call: TRUE when the verb awaits doFetchWithRetry
  pc,        \* per call: where the current doFetch attempt is suspended
  tries,     \* per call: doFetchWithRetry's local `tries`
  res,       \* per call: the last decoded result (`res`)
  received,  \* per call: the raw responses received so far
  reqCount,  \* per call: network requests issued
  tokCount,  \* per call: token acquisitions started
  inner,     \* per call: what doFetchWithRetry / doFetch settled to
  out,       \* per call: what the verb settled to
  entity,    \* the object handed to parsePrefixedEntity
  normalized,\* the object parsePrefixedEntity returned
  normDone,  \* TRUE once parsePrefixedEntity has returned
  lpc,       \* per login request: where the handler is
  accessToken, \* per login request: the accessToken of the query string
  response,  \* per login request: what getContactId's doGet settled to
  sent,      \* per login request: the responses the handler sent, in order
  handler    \* per login request: how the handler's promise settled

crmVars == <<cfg, op, isBatch, retry, pc, tries, res, received,
             reqCount, tokCount, inner, out>>

normVars == <<entity, normalized, normDone>>

loginVars == <<lpc, accessToken, response, sent, handler>>

\* what the CRM client's steps leave alone
nonCrmVars == <<normVars, loginVars>>

vars == <<crmVars, normVars, loginVars>>

\* The login requests in flight.
Requests == {"r1", "r2"}

Verbs == {"doGet", "doPatch", "doPost", "doBatchPost", "doDelete"}

CrmIdle ==
  /\ op = [c \in Calls |-> "none"]
  /\ isBatch = [c \in Calls |-> FALSE]
  /\ retry = [c \in Calls |-> FALSE]
  /\ pc = [c \in Calls |-> "idle"]
  /\ tries = [c \in Calls |-> 0]
  /\ res = [c \in Calls |-> NoResult]
  /\ received = [c \in Calls |-> <<>>]
  /\ reqCount = [c \in Calls |-> 0]
  /\ tokCount = [c \in Calls |-> 0]
  /\ inner = [c \in Calls |-> InnerPending]
  /\ out = [c \in Calls |-> Pending]

NormIdle ==
  /\ entity = <<>>
  /\ normalized = <<>>
  /\ normDone = FALSE

LoginIdle ==
  /\ lpc = [q \in Requests |-> "idle"]
  /\ accessToken = [q \in Requests |-> "none"]
  /\ response = [q \in Requests |-> Pending]
  /\ sent = [q \in Requests |-> <<>>]
  /\ handler = [q \in Requests |-> "pending"]

Init ==
  /\ cfg \in Configs
  /\ CrmIdle
  /\ NormIdle
  /\ LoginIdle

\* variant: the headers, token included, are taken from an earlier call, so
\* the attempt goes straight to the network call
Start_NoToken(c, o, b) ==
  /\ pc[c] = "idle"
  /\ op' = [op EXCEPT ![c] = o]
  /\ isBatch' = [isBatch EXCEPT ![c] = b]
  /\ retry' = [retry EXCEPT ![c] = UsesRetry(o)]
  /\ tries' = [tries EXCEPT ![c] = IF UsesRetry(o) THEN InitialTries(cfg) ELSE 0]
  /\ pc' = [pc EXCEPT ![c] = "net"]
  /\ reqCount' = [reqCount EXCEPT ![c] = 1]
  /\ UNCHANGED <<cfg, res, received, tokCount, inner>>
  /\ UNCHANGED nonCrmVars

\* A verb is entered: it starts its first doFetch attempt, which runs up to
\* the token acquisition.
Start(c, o, b) ==
  /\ pc[c] = "idle"
  /\ op' = [op EXCEPT ![c] = o]
  /\ isBatch' = [isBatch EXCEPT ![c] = b]
  /\ retry' = [retry EXCEPT ![c] = UsesRetry(o)]
  /\ tries' = [tries EXCEPT ![c] = IF UsesRetry(o) THEN InitialTries(cfg) ELSE 0]
  /\ pc' = [pc EXCEPT ![c] = "token"]
  /\ tokCount' = [tokCount EXCEPT ![c] = 1]
  /\ UNCHANGED <<cfg, res, received, reqCount, inner>>
  /\ UNCHANGED nonCrmVars

doGet(c) ==
  /\ Start(c, "doGet", FALSE)
  /\ UNCHANGED out

doPatch(c) ==
  /\ Start(c, "doPatch", FALSE)
  /\ UNCHANGED out

doPost(c, b) ==
  /\ Start(c, "doPost", b)
  /\ UNCHANGED out

doBatchPost(c) ==
  /\ Start(c, "doBatchPost", TRUE)
  /\ UNCHANGED out

\* doFetch is not awaited: `res` is the promise, res.content is undefined,
\* and reading res.content.error raises at once; the attempt goes on alone.
doDelete(c) ==
  /\ Start(c, "doDelete", FALSE)
  /\ out' = [out EXCEPT ![c] = Threw(TypeErrorMessage)]

\* The verb's promise after the fetch layer settled; doDelete's was settled
\* when it was entered.
Settle(c, o) == IF op[c] = "doDelete" THEN out[c] ELSE o

\* variant: doFetchWithRetry catches the failure and goes round again
doFetchThrows_Retried(c) ==
  /\ pc' = [pc EXCEPT ![c] = IF retry[c] /\ tries[c] > 0 THEN "token" ELSE "end"]
  /\ inner' = [inner EXCEPT ![c] =
                 IF retry[c] /\ tries[c] > 0 THEN InnerPending
                 ELSE InnerThrew(doFetchFailure(op[c]))]
  /\ out' = [out EXCEPT ![c] =
               IF retry[c] /\ tries[c] > 0 THEN Pending
               ELSE Settle(c, Threw(doFetchFailure(op[c])))]

\* doFetch's catch block: the attempt raises the generic failure, which
\* passes through doFetchWithRetry and the verb.
doFetchThrows(c) ==
  /\ pc' = [pc EXCEPT ![c] = "end"]
  /\ inner' = [inner EXCEPT ![c] = InnerThrew(doFetchFailure(op[c]))]
  /\ out' = [out EXCEPT ![c] = Settle(c, Threw(doFetchFailure(op[c])))]

acquireTokenOk(c) ==
  /\ pc[c] = "token"
  /\ pc' = [pc EXCEPT ![c] = "net"]
  /\ reqCount' = [reqCount EXCEPT ![c] = @ + 1]
  /\ UNCHANGED <<cfg, op, isBatch, retry, tries, res, received, tokCount, inner, out>>
  /\ UNCHANGED nonCrmVars

acquireTokenFails(c) ==
  /\ pc[c] = "token"
  /\ doFetchThrows(c)
  /\ UNCHANGED <<cfg, op, isBatch, retry, tries, res, received, reqCount, tokCount>>
  /\ UNCHANGED nonCrmVars

fetchFails(c) ==
  /\ pc[c] = "net"
  /\ doFetchThrows(c)
  /\ UNCHANGED <<cfg, op, isBatch, retry, tries, res, received, reqCount, tokCount>>
  /\ UNCHANGED nonCrmVars

\* The raw responses the CRM may send to call c.
\* The raw responses the CRM may send to call c; a 204 has no body.
Responses(c) ==
  {r \in [status : Statuses,
          text : {Plain(b) : b \in Bodies}
                   \cup (IF isBatch[c]
                         THEN [wrap : {"batch", "noClose"}, body : JsonBodies]
                         ELSE {})] :
     r.status = 204 <=> r.text = Plain("")}

\* variant: the variable is one field shared by all the calls
setLocal_Shared(f, c, v) == [k \in Calls |-> v]

\* `let tries`, `let res`: an assignment to a local of call c
setLocal(f, c, v) == [f EXCEPT ![c] = v]

\* The response arrives: doFetch decodes it, and the code that awaited it
\* (doFetchWithRetry's loop, then the verb) runs to its next suspension.
fetchResponds(c, r) ==
  LET d == doFetchDecode(r, isBatch[c])
      fault == d.content.error.present /\ isObjectReferenceError(d.content.error)
      left == TriesAfterFault(tries[c])
  IN
  /\ pc[c] = "net"
  /\ received' = [received EXCEPT ![c] = Append(@, r)]
  /\ res' = setLocal(res, c, d)
  /\ IF retry[c] /\ fault
     THEN /\ tries' = setLocal(tries, c, left)
          /\ IF left # 0
             THEN /\ pc' = [pc EXCEPT ![c] = "token"]
                  /\ tokCount' = [tokCount EXCEPT ![c] = @ + 1]
                  /\ UNCHANGED <<inner, out>>
             ELSE /\ pc' = [pc EXCEPT ![c] = "end"]
                  /\ inner' = [inner EXCEPT ![c] =
                                 InnerThrew(ErrorMessageOf(d.content.error))]
                  /\ out' = [out EXCEPT ![c] =
                               Threw(ErrorMessageOf(d.content.error))]
                  /\ UNCHANGED tokCount
     ELSE /\ pc' = [pc EXCEPT ![c] = "end"]
          /\ inner' = [inner EXCEPT ![c] = InnerReturned(d)]
          /\ out' = [out EXCEPT ![c] =
                       IF op[c] = "doDelete" THEN out[c] ELSE VerbResult(op[c], d)]
          /\ UNCHANGED <<tries, tokCount>>
  /\ UNCHANGED <<cfg, op, isBatch, retry, reqCount>>
  /\ UNCHANGED nonCrmVars

Next ==
  \/ \E c \in Calls : doGet(c)
  \/ \E c \in Calls : doPatch(c)
  \/ \E c \in Calls, b \in BOOLEAN : doPost(c, b)
  \/ \E c \in Calls : doBatchPost(c)
  \/ \E c \in Calls : doDelete(c)
  \/ \E c \in Calls : acquireTokenOk(c)
  \/ \E c \in Calls : acquireTokenFails(c)
  \/ \E c \in Calls : fetchFails(c)
  \/ \E c \in Calls : \E r \in Responses(c) : fetchResponds(c, r)

Spec == Init /\ [][Next]_vars

\* Every token acquisition and every network call completes or fails in the
\* end.
SpecLive ==
  /\ Init
  /\ [][Next]_vars
  /\ \A c \in Calls :
       /\ WF_vars(acquireTokenOk(c) \/ acquireTokenFails(c))
       /\ WF_vars(fetchFails(c) \/ \E r \in Responses(c) : fetchResponds(c, r))

(***************************************************************************)
(* parsePrefixedEntity on its own: the entity is any object of up to       *)
(* MaxKeys properties whose names have up to MaxNameLen pieces.            *)
(***************************************************************************)
MaxNameLen == 2
MaxKeys == 2

Markers == {FORMATTED_VALUE, LOGICAL_NAME, NAVIGATION_PROPERTY}
Pieces == {"a", "_formatted"} \cup Markers
PropertyValues == {"p", "q"}

PropertyNames == UNION {[1..n -> Pieces] : n \in 1..MaxNameLen}

\* objects: the keys of an object are distinct
Entities ==
  {e \in UNION {[1..n -> PropertyNames \X PropertyValues] : n \in 1..MaxKeys} :
     \A i, j \in 1..Len(e) : i # j => e[i][1] # e[j][1]}

InitNorm ==
  /\ cfg = [set |-> FALSE, val |-> 0]
  /\ CrmIdle
  /\ entity \in Entities
  /\ normalized = <<>>
  /\ normDone = FALSE
  /\ LoginIdle

Normalize ==
  /\ ~normDone
  /\ normalized' = parsePrefixedEntity(entity)
  /\ normDone' = TRUE
  /\ UNCHANGED <<crmVars, entity, loginVars>>

NextNorm == Normalize

SpecNorm == InitNorm /\ [][NextNorm]_vars

(***************************************************************************)
(* The login route: GET / with an accessToken in the query string.  The    *)
(* handler suspends once, at getContactId's doGet.                         *)
(***************************************************************************)
HasContactId(obj) == \E i \in 1..Len(obj) : obj[i][1] = <<"contactid">>
ContactIdOf(obj) == obj[CHOOSE i \in 1..Len(obj) : obj[i][1] = <<"contactid">>][2]

\* what a non-batch doGet can settle to
DoGetOutcomes ==
  {doGetResult(doFetchDecode(r, FALSE)) :
     r \in {x \in [status : Statuses, text : {Plain(b) : b \in Bodies}] :
              x.status = 204 <=> x.text = Plain("")}}
    \cup {Threw(doFetchFailure("doGet")), Threw(ErrorMessageOf(NoError))}

\* the responses the handler sends; the status is the one the code names
\* (res.send alone leaves the default, "200")
LoginSuccess == [status |-> "200", cookie |-> TRUE]
ErrorResponse(st) == [status |-> st, cookie |-> FALSE]

\* what getContactId or the code before it raised
Raised(name) == [ok |-> FALSE, error |-> name, contactId |-> ""]
Resolved(id) == [ok |-> TRUE, error |-> "", contactId |-> id]

\* getContactId without the check for more than one contact
getContactId_FirstContact(o) ==
  IF o.kind = "threw" THEN Raised("Error")
  ELSE IF o.isFalse \/ ~o.json.hasValue
  THEN Raised("TypeError")
  ELSE IF Len(o.json.value) = 0 THEN Raised("UnauthError")
  ELSE Resolved(IF HasContactId(o.json.value[1])
                THEN ContactIdOf(o.json.value[1]) ELSE "undefined")

\* getContactId after its doGet has settled to o
getContactId(o) ==
  IF o.kind = "threw" THEN Raised("Error")
  ELSE IF o.isFalse \/ ~o.json.hasValue
  THEN Raised("TypeError")              \* contacts is undefined
  ELSE IF Len(o.json.value) = 0 THEN Raised("UnauthError")
  ELSE IF Len(o.json.value) > 1 THEN Raised("BadRequestError")
  ELSE Resolved(IF HasContactId(o.json.value[1])
                THEN ContactIdOf(o.json.value[1]) ELSE "undefined")

\* the catch block: a BadRequestError gets its own response, and then, with
\* no return in between, the 500 response is sent as well; the second send
\* finds the headers already sent and raises
catchBlock(q, e) ==
  IF e.error = "BadRequestError"
  THEN /\ sent' = [sent EXCEPT ![q] =
                     @ \o <<ErrorResponse("e.status"), ErrorResponse("500")>>]
       /\ handler' = [handler EXCEPT ![q] = "rejected"]
  ELSE /\ sent' = [sent EXCEPT ![q] = Append(@, ErrorResponse("500"))]
       /\ handler' = [handler EXCEPT ![q] = "resolved"]

\* the request arrives: the accessToken is checked and verified, then
\* getContactId starts its doGet
loginGet(q, tok) ==
  /\ lpc[q] = "idle"
  /\ accessToken' = [accessToken EXCEPT ![q] = tok]
  /\ IF tok = "absent"
     THEN /\ catchBlock(q, Raised("BadRequestError"))
          /\ lpc' = [lpc EXCEPT ![q] = "done"]
     ELSE IF tok = "invalid"
     THEN /\ catchBlock(q, Raised("UnauthError"))
          /\ lpc' = [lpc EXCEPT ![q] = "done"]
     ELSE /\ lpc' = [lpc EXCEPT ![q] = "getContactId"]
          /\ UNCHANGED <<sent, handler>>
  /\ UNCHANGED <<crmVars, normVars, response>>

\* doGet settles: getContactId finishes and the handler answers
loginContinues(q, o) ==
  /\ lpc[q] = "getContactId"
  /\ lpc' = [lpc EXCEPT ![q] = "done"]
  /\ response' = [response EXCEPT ![q] = o]
  /\ IF getContactId(o).ok
     THEN /\ sent' = [sent EXCEPT ![q] = Append(@, LoginSuccess)]
          /\ handler' = [handler EXCEPT ![q] = "resolved"]
     ELSE catchBlock(q, getContactId(o))
  /\ UNCHANGED <<crmVars, normVars, accessToken>>

NextLogin ==
  \/ \E q \in Requests, tok \in {"absent", "invalid", "valid"} : loginGet(q, tok)
  \/ \E q \in Requests, o \in DoGetOutcomes : loginContinues(q, o)

InitLogin ==
  /\ cfg = [set |-> FALSE, val |-> 0]
  /\ CrmIdle
  /\ NormIdle
  /\ LoginIdle

SpecLogin == InitLogin /\ [][NextLogin]_vars

(***************************************************************************)
(* Properties of the Retry Controller.                                     *)
(***************************************************************************)
\* a decoded result whose content carries the known transient fault
TransientFault(d) ==
  /\ d.content.error.present
  /\ d.content.error.message = Str(Plain(OBJECT_REFERENCE_ERROR))

DecodedAt(c, i) == doFetchDecode(received[c][i], isBatch[c])
LastDecoded(c) == DecodedAt(c, Len(received[c]))

\* the first n responses of call c were all the transient fault
FaultsUpTo(c, n) == \A i \in 1..n : TransientFault(DecodedAt(c, i))

\* the fetch layer raised, and not from doFetch's catch block
RaisedByRetry(c) ==
  /\ retry[c]
  /\ inner[c].kind = "threw"
  /\ inner[c].error # doFetchFailure(op[c])

\* C1: a call through doFetchWithRetry that has received N <= R transient
\* faults and nothing else has not raised, and once the response after
\* them is a success the call returns that response.
C1_FaultsThenSuccessReturnsSuccess ==
  \A c \in Calls :
    retry[c] /\ Len(received[c]) >= 1 =>
      /\ (FaultsUpTo(c, Len(received[c])) /\ Len(received[c]) <= Retries(cfg))
            => ~RaisedByRetry(c)
      /\ (/\ FaultsUpTo(c, Len(received[c]) - 1)
          /\ Len(received[c]) - 1 <= Retries(cfg)
          /\ ~LastDecoded(c).content.error.present)
            => inner[c] = InnerReturned(LastDecoded(c))

\* C2: a call through doFetchWithRetry that stopped on transient faults
\* alone has issued exactly R + 1 requests.
C2_OnlyFaultsIssuesRetriesPlusOne ==
  \A c \in Calls :
    RaisedByRetry(c) /\ FaultsUpTo(c, Len(received[c]))
      => reqCount[c] = Retries(cfg) + 1

\* C3: after R + 1 transient faults doFetchWithRetry has raised, and the
\* failure it raises carries the error message of the last response.
C3_ExhaustionRaisesLastError ==
  \A c \in Calls :
    /\ (retry[c] /\ Len(received[c]) = Retries(cfg) + 1
          /\ FaultsUpTo(c, Len(received[c])))
         => inner[c].kind = "threw"
    /\ RaisedByRetry(c)
         => inner[c].error = res[c].content.error.message.text.body

Started(c) == op[c] # "none"

\* C5 as stated: only doGet and batch POST are retried; doPatch, doDelete
\* and non-batch doPost are not, and issue one request per call.
C5_RetryOnlyGetAndBatchPost ==
  \A c \in Calls :
    Started(c) =>
      /\ retry[c] <=> (op[c] = "doGet"
                         \/ (op[c] \in {"doPost", "doBatchPost"} /\ isBatch[c]))
      /\ ~retry[c] => reqCount[c] <= 1

\* C5 as amended: doGet and doPost (batch or not, so doBatchPost too) go
\* through doFetchWithRetry; doPatch and doDelete call doFetch directly and
\* make one attempt per call, with one request, also on the transient fault.
C5_RetryByVerb ==
  \A c \in Calls :
    Started(c) =>
      /\ retry[c] <=> op[c] \in {"doGet", "doPost", "doBatchPost"}
      /\ op[c] \in {"doPatch", "doDelete"} =>
           /\ tokCount[c] = 1
           /\ reqCount[c] <= 1
           /\ Len(received[c]) >= 1 => (reqCount[c] = 1 /\ pc[c] = "end")

\* a non-batch doPost went through the retry controller and raised on the
\* transient fault, while a doPatch given the same fault returned false
C5_Witness ==
  \E c, d \in Calls :
    /\ op[c] = "doPost" /\ ~isBatch[c] /\ retry[c]
    /\ Len(received[c]) = 1 /\ TransientFault(LastDecoded(c))
    /\ out[c].kind = "threw"
    /\ op[d] = "doPatch" /\ ~retry[d]
    /\ Len(received[d]) = 1 /\ TransientFault(LastDecoded(d))
    /\ reqCount[d] = 1 /\ out[d] = ReturnedFalse

\* the verb's success condition on a decoded result
Acceptable(o, d) ==
  /\ ~d.content.error.present
  /\ IF o = "doPatch" THEN d.status >= 200 /\ d.status < 300 ELSE d.status = 200

\* C6: doGet, doPatch and doPost return false for every decoded result
\* handed to them that fails the verb's success condition.
C6_FailureReturnsFalse ==
  \A c \in Calls :
    (/\ op[c] \in {"doGet", "doPatch", "doPost"}
     /\ inner[c].kind = "returned"
     /\ ~Acceptable(op[c], inner[c].res))
      => out[c] = ReturnedFalse

\* C7: doDelete never raises; it returns the content of a 200 response
\* without error and false for any other decoded result.
C7_DeleteReturnsContentOrFalse ==
  \A c \in Calls :
    op[c] = "doDelete" =>
      /\ out[c].kind # "threw"
      /\ inner[c].kind = "returned" =>
           out[c] = IF Acceptable("doDelete", inner[c].res)
                    THEN Returned(inner[c].res.content)
                    ELSE ReturnedFalse

\* C8: a verb other than doDelete (C7) raises only when the transient fault
\* has used up the tries; a doFetch failure is resolved to false.
C8_RaisesOnlyOnExhaustion ==
  \A c \in Calls :
    op[c] # "doDelete" =>
      /\ out[c].kind = "threw" =>
           /\ retry[c]
           /\ Len(received[c]) = Retries(cfg) + 1
           /\ FaultsUpTo(c, Len(received[c]))
      /\ (inner[c].kind = "threw" /\ inner[c].error = doFetchFailure(op[c]))
           => out[c] = ReturnedFalse

\* the normalization section 4.4 describes, total on every body shape
NormalizedContent(json) ==
  IF json.context = "entity"
  THEN [json EXCEPT !.props = parsePrefixedEntity(json.props)]
  ELSE IF json.hasValue
  THEN [json EXCEPT !.value = [i \in 1..Len(json.value) |->
                                  parsePrefixedEntity(json.value[i])]]
  ELSE json

\* C9: doGet on a 200 response without error returns the normalized
\* content, whatever the shape of the body.
C9_GetReturnsNormalized ==
  \A c \in Calls :
    (/\ op[c] = "doGet"
     /\ inner[c].kind = "returned"
     /\ Acceptable("doGet", inner[c].res))
      => out[c] = Returned(NormalizedContent(inner[c].res.content))

\* C10: a batch response without its closing boundary is decoded, without
\* a failure, to an error whose message is the raw response text.
C10_MalformedBatchKeepsRawText ==
  \A c \in Calls :
    (/\ isBatch[c]
     /\ Len(received[c]) >= 1
     /\ received[c][Len(received[c])].text.wrap = "noClose")
      => /\ inner[c].kind = "returned"
         /\ res[c].content.error.present
         /\ res[c].content.error.message = Str(received[c][Len(received[c])].text)

C12_AttemptFailureIsGeneric ==
  [][\A c \in Calls :
       (pc[c] \in {"token", "net"} /\ pc'[c] = "end" /\ received'[c] = received[c])
         => /\ inner'[c] = InnerThrew("CRMClient failed to do " \o Method(op[c])
                                        \o " request")
            /\ res'[c] = res[c]
            /\ reqCount'[c] = reqCount[c]
            /\ pc[c] = "token" => reqCount[c] = tokCount[c] - 1]_vars

\* one call failed at the token acquisition without any request, another
\* failed at the network call
C12_Witness ==
  \E c, d \in Calls :
    /\ inner[c].kind = "threw" /\ tokCount[c] = 1 /\ reqCount[c] = 0
    /\ received[c] = <<>> /\ res[c] = NoResult
    /\ inner[d].kind = "threw" /\ tokCount[d] = 1 /\ reqCount[d] = 1
    /\ received[d] = <<>> /\ res[d] = NoResult

(***************************************************************************)
(* Properties of the property-name normalization.                          *)
(***************************************************************************)
HasKey(obj, k) == \E i \in 1..Len(obj) : obj[i][1] = k
ValueOf(obj, k) == obj[CHOOSE i \in 1..Len(obj) : obj[i][1] = k][2]

MarkersIn(name) == {m \in Markers : \E i \in 1..Len(name) : name[i] = m}
Annotated(name) == Cardinality(MarkersIn(name)) = 1
Unmarked(name) == MarkersIn(name) = {}

SuffixOf(m) ==
  CASE m = FORMATTED_VALUE -> "_formatted"
    [] m = LOGICAL_NAME -> "_logical"
    [] m = NAVIGATION_PROPERTY -> "_navigationproperty"

\* <base>_suffix for a name that carries one marker, at any position
ExpectedName(name) ==
  LET m == CHOOSE x \in MarkersIn(name) : TRUE
      p == CHOOSE i \in 1..Len(name) :
             name[i] = m /\ \A j \in 1..(i-1) : name[j] # m
  IN  SubSeq(name, 1, p - 1) \o <<SuffixOf(m)>>

\* the name each key is meant to end up under
TargetName(name) == IF Annotated(name) THEN ExpectedName(name) ELSE name

\* no two keys of the entity are meant to end up under the same name
NoClash(e) ==
  \A i, j \in 1..Len(e) : i # j => TargetName(e[i][1]) # TargetName(e[j][1])

\* C13: every property whose name carries a marker, at any position, is in
\* the result under <base>_suffix with its value, and not under its own name.
C13_AnnotatedKeysRenamed ==
  (normDone /\ NoClash(entity)) =>
    \A i \in 1..Len(entity) :
      Annotated(entity[i][1]) =>
        /\ HasKey(normalized, ExpectedName(entity[i][1]))
        /\ ValueOf(normalized, ExpectedName(entity[i][1])) = entity[i][2]
        /\ ~HasKey(normalized, entity[i][1])

\* C14: every property whose name carries no marker is in the result under
\* the same name with the same value, whatever else the entity holds.
C14_PlainKeysKept ==
  normDone =>
    \A i \in 1..Len(entity) :
      Unmarked(entity[i][1]) =>
        /\ HasKey(normalized, entity[i][1])
        /\ ValueOf(normalized, entity[i][1]) = entity[i][2]

(***************************************************************************)
(* Properties of the JSON parse.                                           *)
(***************************************************************************)
\* a value as section 4.4 has it after the parse
RevivedValue(v) == IF v \in DateStrings THEN DateOf(v) ELSE v

RevivedProps(obj) ==
  [i \in 1..Len(obj) |-> <<obj[i][1], RevivedValue(obj[i][2])>>]

\* C15: in the content doFetch decodes from a JSON body every string that
\* is a valid date has become a date value and every other value is as it
\* was in the body.
C15_DatesRevived ==
  \A c \in Calls :
    (/\ ~isBatch[c]
     /\ Len(received[c]) >= 1
     /\ received[c][Len(received[c])].text.body \in JsonBodies)
      => LET body == JsonOf(received[c][Len(received[c])].text.body)
         IN  /\ res[c].content.props = RevivedProps(body.props)
             /\ res[c].content.value =
                  [i \in 1..Len(body.value) |-> RevivedProps(body.value[i])]

(***************************************************************************)
(* Properties of concurrent calls.                                         *)
(***************************************************************************)
CallState(c) == <<op[c], isBatch[c], retry[c], pc[c], tries[c], res[c],
                  received[c], reqCount[c], tokCount[c], inner[c], out[c]>>

\* what a call was given: its verb and arguments, the responses it received
\* and how far its attempts got
CallInputs(c) == <<op[c], isBatch[c], received[c], reqCount[c], tokCount[c], pc[c]>>

\* C16: a step of one call leaves everything of the other calls as it was,
\* and a call's remaining tries, request count and outcome depend only on
\* what that call was given: two calls given the same agree on them.
C16_CallsIndependent ==
  /\ [][\A c, d \in Calls :
          (c # d /\ pc'[d] # pc[d]) => CallState(c)' = CallState(c)]_vars
  /\ [](\A c, d \in Calls :
          CallInputs(c) = CallInputs(d) => CallState(c) = CallState(d))

\* one retried call used up its tries while another, still waiting for its
\* response, has all of its own
C16_Witness ==
  \E c, d \in Calls :
    /\ c # d /\ retry[c] /\ retry[d]
    /\ pc[c] = "end" /\ tries[c] = 0 /\ out[c].kind = "threw"
    /\ pc[d] = "net" /\ tries[d] = InitialTries(cfg) /\ out[d].kind = "pending"
    /\ reqCount[c] = 1 /\ reqCount[d] = 1

(***************************************************************************)
(* Termination.                                                            *)
(***************************************************************************)
\* C17: a call that was entered settles (returns or raises) and its last
\* attempt ends; each retry leaves fewer tries than before, and at least
\* one, so a stream of transient faults is cut off.
C17_EveryCallSettles ==
  /\ \A c \in Calls :
       (op[c] # "none") ~> (out[c].kind # "pending" /\ pc[c] = "end")
  /\ [][\A c \in Calls :
          (pc[c] = "net" /\ pc'[c] = "token")
            => (tries'[c] < tries[c] /\ tries'[c] > 0)]_vars

\* a retried call answered with the transient fault has settled
C17_Witness ==
  \E c \in Calls :
    /\ retry[c]
    /\ Len(received[c]) >= 1
    /\ received[c][Len(received[c])].text = Plain("objectReference")
    /\ out[c].kind # "pending" /\ pc[c] = "end"

(***************************************************************************)
(* Token acquisition and transport failures.                               *)
(***************************************************************************)
\* the attempts of call c that have ended
EndedAttempts(c) ==
  Len(received[c])
    + (IF inner[c].kind = "threw"
          /\ inner[c].error = "CRMClient failed to do " \o Method(op[c]) \o " request"
       THEN 1 ELSE 0)

\* C18: each attempt acquires the token before it issues its request: the
\* token has been acquired once per attempt, a call waiting for the token
\* has one acquisition more than requests, and a call whose request is out
\* has as many acquisitions as requests.
C18_TokenBeforeEachRequest ==
  \A c \in Calls :
    op[c] # "none" =>
      /\ reqCount[c] <= tokCount[c]
      /\ tokCount[c] <= reqCount[c] + 1
      /\ pc[c] = "token" => tokCount[c] = reqCount[c] + 1
      /\ pc[c] = "net" => tokCount[c] = reqCount[c]
      /\ pc[c] = "end" => tokCount[c] = EndedAttempts(c)

\* a call is waiting for the response of a request sent after its own
\* token acquisition
C18_Witness ==
  \E c \in Calls : pc[c] = "net" /\ tokCount[c] = 1 /\ reqCount[c] = 1

\* C19: a doFetch failure in a call through doFetchWithRetry ends the call
\* in that step with the generic failure, whatever tries remain, and a call
\* that has ended issues nothing more.
C19_TransportFailureNotRetried ==
  [][\A c \in Calls :
       retry[c] =>
         /\ (/\ pc[c] \in {"token", "net"}
             /\ received'[c] = received[c]
             /\ CallState(c)' # CallState(c)
             /\ ~(pc[c] = "token" /\ pc'[c] = "net"))
              => /\ pc'[c] = "end"
                 /\ out'[c] = Threw("CRMClient failed to do " \o Method(op[c])
                                      \o " request")
                 /\ tries'[c] = tries[c]
                 /\ reqCount'[c] = reqCount[c]
                 /\ tokCount'[c] = tokCount[c]
         /\ pc[c] = "end" => CallState(c)' = CallState(c)]_vars

\* a retried call with tries left ended on a failed network call
C19_Witness ==
  \E c \in Calls :
    /\ retry[c] /\ tries[c] > 1
    /\ pc[c] = "end" /\ reqCount[c] = 1 /\ received[c] = <<>>
    /\ out[c].kind = "threw" /\ out[c].error # TypeErrorMessage

(***************************************************************************)
(* Properties of the login route.                                          *)
(***************************************************************************)
\* C20: a login request that has been handled got exactly one response
\* sent: the success response with the cookie, or one error response.
C20_OneResponsePerRequest ==
  \A q \in Requests :
    lpc[q] = "done" =>
      /\ Len(sent[q]) = 1
      /\ handler[q] = "resolved"

\* the token cookie went out with one of the responses of request q
CookieIssued(q) == \E i \in 1..Len(sent[q]) : sent[q][i].cookie

\* doGet returned a collection of exactly n contacts to request q
ContactsFound(q, n) ==
  /\ response[q].kind = "returned"
  /\ ~response[q].isFalse
  /\ response[q].json.hasValue
  /\ Len(response[q].json.value) = n

\* the doGet of request q returned false, or found no contact, or more than one
LookupRejected(q) ==
  /\ response[q].kind = "returned"
  /\ \/ response[q].isFalse
     \/ /\ response[q].json.hasValue
        /\ Len(response[q].json.value) # 1

\* C21: the token cookie is issued only to a request whose accessToken was
\* present and verified and whose CRM GET returned exactly one contact; a
\* request whose doGet returned false, or found zero or more than one
\* contact, gets no cookie and has an error response sent.
C21_CookieOnlyForOneContact ==
  \A q \in Requests :
    /\ CookieIssued(q) =>
         /\ accessToken[q] = "valid"
         /\ ContactsFound(q, 1)
    /\ (lpc[q] = "done" /\ accessToken[q] = "valid" /\ LookupRejected(q)) =>
         /\ ~CookieIssued(q)
         /\ Len(sent[q]) >= 1
         /\ \A i \in 1..Len(sent[q]) : sent[q][i].status # "200"

\* one request got the cookie for its single contact while the other, whose
\* doGet returned false or the wrong number of contacts, got an error
C21_Witness ==
  \E q1, q2 \in Requests :
    /\ lpc[q1] = "done" /\ CookieIssued(q1) /\ ContactsFound(q1, 1)
    /\ lpc[q2] = "done" /\ accessToken[q2] = "valid" /\ LookupRejected(q2)
    /\ ~CookieIssued(q2) /\ Len(sent[q2]) >= 1

====
